---- MODULE Spec2Model ----
(***************************************************************************)
(* qupulse/hardware/awgs/seqc.py: lowering of a Loop tree to SEQC nodes    *)
(* (loop_to_seqc), the stepping/sharing analysis, and the emission of the  *)
(* sequencer source lines (to_source_code).                                *)
(***************************************************************************)
EXTENDS Integers, Sequences, FiniteSets, TLC

\* ------------------------------------------------------------------ bounds

\* largest repetition count of a loop in the explored loop trees
MaxRep == 2
\* largest number of children of a loop in the explored wide loop trees
MaxKids == 4
\* largest number of members of an explored node cluster (find_sharable_waveforms)
MaxCluster == 3

\* ------------------------------------------------------------ small helpers

Min(a, b) == IF a <= b THEN a ELSE b

RECURSIVE SeqSum(_)
SeqSum(s) == IF s = <<>> THEN 0 ELSE Head(s) + SeqSum(Tail(s))

RECURSIVE Flatten(_)
Flatten(ss) == IF ss = <<>> THEN <<>> ELSE Head(ss) \o Flatten(Tail(ss))

\* all sequences over S of length lo..hi
SeqsOf(S, lo, hi) == UNION {[1..n -> S] : n \in lo..hi}

\* ---------------------------------------------------------- BinaryWaveform

\* data: the content of the sample buffer, size: len(data),
\* planes: sum(channel_mask) + any(marker_mask)
BinaryWaveform(data, size, planes) == [data |-> data, size |-> size, planes |-> planes]

\* BinaryWaveform.__len__
WfLen(wf) == wf.size \div wf.planes

\* the waveforms of the explored programs: WA and WB have the same length and
\* different content, WC is longer
WA == BinaryWaveform("a", 2, 2)
WB == BinaryWaveform("b", 2, 2)
WC == BinaryWaveform("c", 4, 2)
Waveforms == {WA, WB, WC}

\* ------------------------------------------------------------- SEQC nodes

WaveformPlayback(waveform, shared) ==
    [type |-> "WaveformPlayback", waveform |-> waveform, shared |-> shared]

Scope(nodes) == [type |-> "Scope", nodes |-> nodes]

\* Repeat.__init__ without its assertion (see RepeatInit)
Repeat(repetition_count, scope) ==
    [type |-> "Repeat", repetition_count |-> repetition_count, scope |-> scope]

SteppingRepeat(node_cluster) == [type |-> "SteppingRepeat", node_cluster |-> node_cluster]

\* the outcome of a lowering that raised (AssertionError of Repeat.__init__)
Raised == [type |-> "AssertionError"]

\* Repeat.__init__: assert repetition_count > 1
RepeatInit(repetition_count, scope) ==
    IF repetition_count > 1 THEN Repeat(repetition_count, scope) ELSE Raised

\* the direct children of a node (for walks over the tree)
Children(n) ==
    CASE n.type = "Scope" -> n.nodes
      [] n.type = "Repeat" -> <<n.scope>>
      [] n.type = "SteppingRepeat" -> n.node_cluster
      [] OTHER -> <<>>

\* ------------------------------------------------------------- samples()

RECURSIVE samples(_)

WaveformPlayback_samples(self) == IF self.shared THEN 0 ELSE WfLen(self.waveform)

Scope_samples(self) == SeqSum([i \in 1..Len(self.nodes) |-> samples(self.nodes[i])])

Repeat_samples(self) == samples(self.scope)

SteppingRepeat_samples(self) == Len(self.node_cluster) * samples(self.node_cluster[1])

samples(n) ==
    CASE n.type = "WaveformPlayback" -> WaveformPlayback_samples(n)
      [] n.type = "Scope" -> Scope_samples(n)
      [] n.type = "Repeat" -> Repeat_samples(n)
      [] n.type = "SteppingRepeat" -> SteppingRepeat_samples(n)

\* ------------------------------------------------ iter_waveform_playbacks()

RECURSIVE iter_waveform_playbacks(_)
iter_waveform_playbacks(n) ==
    CASE n.type = "WaveformPlayback" -> <<n>>
      [] n.type = "Scope" ->
           Flatten([i \in 1..Len(n.nodes) |-> iter_waveform_playbacks(n.nodes[i])])
      [] n.type = "Repeat" -> iter_waveform_playbacks(n.scope)
      [] n.type = "SteppingRepeat" ->
           Flatten([i \in 1..Len(n.node_cluster) |-> iter_waveform_playbacks(n.node_cluster[i])])

\* ----------------------------------------------------------- same_stepping()

RECURSIVE same_stepping(_, _)

\* a variant of WaveformPlayback.same_stepping that compares the shared flags
\* only through self's own branch
WaveformPlayback_same_stepping_own_flag(self, other) ==
    LET same_type == self.type = other.type
    IN IF self.shared
       THEN same_type /\ self.waveform = other.waveform
       ELSE same_type /\ WfLen(self.waveform) = WfLen(other.waveform)

\* the conjunctions are evaluated left to right, as Python's "and": a field of
\* other is read only after the type test has passed
WaveformPlayback_same_stepping(self, other) ==
    LET same_type == self.type = other.type /\ self.shared = other.shared
    IN IF self.shared
       THEN same_type /\ self.waveform = other.waveform
       ELSE same_type /\ WfLen(self.waveform) = WfLen(other.waveform)

\* all(... for n1, n2 in zip(self.nodes, other.nodes)): zip stops at the shorter list
Scope_same_stepping(self, other) ==
    /\ other.type = "Scope"
    /\ \A i \in 1..Min(Len(self.nodes), Len(other.nodes)) :
          same_stepping(self.nodes[i], other.nodes[i])

Repeat_same_stepping(self, other) ==
    /\ self.type = other.type
    /\ self.repetition_count = other.repetition_count
    /\ same_stepping(self.scope, other.scope)

SteppingRepeat_same_stepping(self, other) ==
    /\ other.type = "SteppingRepeat"
    /\ Len(self.node_cluster) = Len(other.node_cluster)
    /\ same_stepping(self.node_cluster[1], other.node_cluster[1])

same_stepping(self, other) ==
    CASE self.type = "WaveformPlayback" -> WaveformPlayback_same_stepping(self, other)
      [] self.type = "Scope" -> Scope_same_stepping(self, other)
      [] self.type = "Repeat" -> Repeat_same_stepping(self, other)
      [] self.type = "SteppingRepeat" -> SteppingRepeat_same_stepping(self, other)

\* ------------------------------------------------ find_sharable_waveforms()

\* the result None
None == [none |-> TRUE, flags |-> <<>>]
Some(flags) == [none |-> FALSE, flags |-> flags]

\* one pass of the inner loop (lines 54-58) over one member: the candidates
\* after it; zip stops at the shorter of the two leaf lists
ScanCandidates(candidates, waveform_playbacks, node) ==
    LET node_wfs == iter_waveform_playbacks(node)
        n == Min(Len(waveform_playbacks), Len(node_wfs))
    IN [idx \in 1..Len(candidates) |->
          IF idx <= n /\ candidates[idx]
          THEN waveform_playbacks[idx] = node_wfs[idx]
          ELSE candidates[idx]]

\* a variant that reads candidates_left off the candidates before the pass
CandidatesLeft_stale(candidates, waveform_playbacks, node) ==
    \E idx \in 1..Min(Len(waveform_playbacks), Len(iter_waveform_playbacks(node))) :
        candidates[idx]

\* candidates_left after that pass: the "or" over the zipped positions only
CandidatesLeft(candidates, waveform_playbacks, node) ==
    \E idx \in 1..Min(Len(waveform_playbacks), Len(iter_waveform_playbacks(node))) :
        ScanCandidates(candidates, waveform_playbacks, node)[idx]

\* the loop over node_cluster[1:], from member k on (1-based)
RECURSIVE FindFrom(_, _, _)
FindFrom(node_cluster, k, candidates) ==
    IF k > Len(node_cluster) THEN Some(candidates)
    ELSE LET wfs == iter_waveform_playbacks(node_cluster[1])
         IN IF ~CandidatesLeft(candidates, wfs, node_cluster[k]) THEN None
            ELSE FindFrom(node_cluster, k + 1, ScanCandidates(candidates, wfs, node_cluster[k]))

find_sharable_waveforms(node_cluster) ==
    FindFrom(node_cluster, 2,
             [i \in 1..Len(iter_waveform_playbacks(node_cluster[1])) |-> TRUE])

\* ------------------------------------------------ mark_sharable_waveforms()

\* wf_playback.shared = True for the leaves of node whose position (off + 1,
\* off + 2, ... in document order) is flagged; zip stops at the end of the flags
RECURSIVE MarkNode(_, _, _)
RECURSIVE MarkNodes(_, _, _)

MarkNodes(nodes, sharable_waveforms, off) ==
    IF nodes = <<>> THEN <<>>
    ELSE <<MarkNode(Head(nodes), sharable_waveforms, off)>>
         \o MarkNodes(Tail(nodes), sharable_waveforms,
                      off + Len(iter_waveform_playbacks(Head(nodes))))

MarkNode(n, sharable_waveforms, off) ==
    CASE n.type = "WaveformPlayback" ->
           IF off + 1 <= Len(sharable_waveforms) /\ sharable_waveforms[off + 1]
           THEN [n EXCEPT !.shared = TRUE] ELSE n
      [] n.type = "Scope" -> [n EXCEPT !.nodes = MarkNodes(n.nodes, sharable_waveforms, off)]
      [] n.type = "Repeat" -> [n EXCEPT !.scope = MarkNode(n.scope, sharable_waveforms, off)]
      [] n.type = "SteppingRepeat" ->
           [n EXCEPT !.node_cluster = MarkNodes(n.node_cluster, sharable_waveforms, off)]

\* every node of the cluster is marked against the same flags, from position 0
mark_sharable_waveforms(node_cluster, sharable_waveforms) ==
    [i \in 1..Len(node_cluster) |-> MarkNode(node_cluster[i], sharable_waveforms, 0)]

\* ------------------------------------------------------------ the Loop tree

\* a Loop: its waveform (leaves only), its repetition count and its children
Loop(waveform, repetition_count, children) ==
    [waveform |-> waveform, repetition_count |-> repetition_count, children |-> children]

NoWaveform == "none"

\* Loop.is_leaf()
is_leaf(loop) == Len(loop.children) = 0

\* the caller's conversion of a leaf's waveform to its binary form
WaveformName == {"wa", "wb", "wc"}
waveform_to_bin(waveform) ==
    CASE waveform = "wa" -> WA
      [] waveform = "wb" -> WB
      [] waveform = "wc" -> WC

\* ------------------------------------------------------- to_node_clusters()

\* the loop of lines 82-91 over the lowered children from index k on:
\* clusters closed so far, the open cluster, the node lowered last
RECURSIVE ClusterFrom(_, _, _, _, _)
ClusterFrom(lowered, k, node_clusters, current_nodes, last_node) ==
    IF k > Len(lowered) THEN Append(node_clusters, current_nodes)
    ELSE LET current_node == lowered[k]
         IN IF same_stepping(last_node, current_node)
            THEN ClusterFrom(lowered, k + 1, node_clusters,
                             Append(current_nodes, current_node), current_node)
            ELSE ClusterFrom(lowered, k + 1, Append(node_clusters, current_nodes),
                             <<current_node>>, current_node)

\* lowered: the children of the loop, each already lowered by loop_to_seqc
to_node_clusters(lowered) == ClusterFrom(lowered, 2, <<>>, <<lowered[1]>>, lowered[1])

\* ------------------------------------------------------------ loop_to_seqc()

\* lines 120-130 for one cluster: the nodes it adds to seqc_nodes
ClusterNodes(node_cluster, min_repetitions_for_for_loop, min_repetitions_for_shared_wf) ==
    IF Len(node_cluster) < min_repetitions_for_for_loop THEN node_cluster
    ELSE IF Len(node_cluster) >= min_repetitions_for_shared_wf
         THEN LET sharable_waveforms == find_sharable_waveforms(node_cluster)
              IN IF ~sharable_waveforms.none /\ Len(sharable_waveforms.flags) > 0
                 THEN <<SteppingRepeat(
                          mark_sharable_waveforms(node_cluster, sharable_waveforms.flags))>>
                 ELSE <<SteppingRepeat(node_cluster)>>
         ELSE <<SteppingRepeat(node_cluster)>>

\* lines 134-137
WrapRepeat(loop, node) ==
    IF loop.repetition_count # 1
    THEN RepeatInit(loop.repetition_count, node)
    ELSE node

RECURSIVE loop_to_seqc(_, _, _)
loop_to_seqc(loop, min_repetitions_for_for_loop, min_repetitions_for_shared_wf) ==
    LET lowered == [i \in 1..Len(loop.children) |->
                      loop_to_seqc(loop.children[i], min_repetitions_for_for_loop,
                                   min_repetitions_for_shared_wf)]
        node ==
          IF is_leaf(loop) THEN WaveformPlayback(waveform_to_bin(loop.waveform), FALSE)
          ELSE IF Len(loop.children) = 1 THEN lowered[1]
          ELSE IF \E i \in 1..Len(lowered) : lowered[i] = Raised THEN Raised
          ELSE LET node_clusters == to_node_clusters(lowered)
               IN Scope(Flatten([c \in 1..Len(node_clusters) |->
                                   ClusterNodes(node_clusters[c],
                                                min_repetitions_for_for_loop,
                                                min_repetitions_for_shared_wf)]))
    IN IF node = Raised THEN Raised ELSE WrapRepeat(loop, node)

\* ------------------------------------- _get_single_indexed_playback()

\* the non-shared leaf of the node when it has exactly one, else NoPlayback
NoPlayback == [type |-> "None"]

get_single_indexed_playback(self) ==
    LET wfs == iter_waveform_playbacks(self)
        indexed == {i \in 1..Len(wfs) : ~wfs[i].shared}
    IN IF Cardinality(indexed) = 1
       THEN wfs[CHOOSE i \in indexed : TRUE]
       ELSE NoPlayback

\* Repeat._stores_initial_pos
stores_initial_pos(self) ==
    LET self_samples == samples(self)
    IN IF self_samples > 0
       THEN LET single_playback == get_single_indexed_playback(self.scope)
            IN IF single_playback = NoPlayback THEN TRUE
               ELSE samples(single_playback) # self_samples
       ELSE FALSE

\* ----------------------------------------------------- the waveform manager

\* the tables of the manager: the values registered so far, in order
NewManager == [concatenated |-> <<>>, shared |-> <<>>]

Register(table, value) ==
    IF \E i \in 1..Len(table) : table[i] = value THEN table ELSE Append(table, value)

\* the identifier of a value: the same for equal values
Identifier(table, value) == CHOOSE i \in 1..Len(table) : table[i] = value

\* --------------------------------------------------- the emitted sequence

\* what a consumer of to_source_code observes, in order: the calls made on the
\* waveform manager and the lines yielded
NoWf == BinaryWaveform("", 0, 1)
NoLine == [op |-> "", prefix |-> 0, name |-> 0, count |-> 0, wf_name |-> 0,
           wf_len |-> 0, advance |-> FALSE]

Line(l) == [what |-> "line", line |-> l, waveform |-> NoWf]
Call(what, waveform) == [what |-> what, line |-> NoLine, waveform |-> waveform]

\* '{line_prefix}var init_pos_{name} = {pos};'
StoreLine(prefix, name) == [NoLine EXCEPT !.op = "store", !.prefix = prefix, !.name = name]
\* '{line_prefix}repeat({repetition_count}) {'
RepeatLine(prefix, count) == [NoLine EXCEPT !.op = "repeat", !.prefix = prefix, !.count = count]
\* '{body_prefix}{pos} = init_pos_{name};'
RestoreLine(prefix, name) == [NoLine EXCEPT !.op = "restore", !.prefix = prefix, !.name = name]
\* '{line_prefix}repeat({repetition_count}) { // stepping repeat'
SteppingLine(prefix, count) ==
    [NoLine EXCEPT !.op = "stepping", !.prefix = prefix, !.count = count]
\* '{line_prefix}}'
CloseLine(prefix) == [NoLine EXCEPT !.op = "close", !.prefix = prefix]
\* '{line_prefix}playWaveform({waveform});'
PlayLine(prefix, wf_name) ==
    [NoLine EXCEPT !.op = "playWaveform", !.prefix = prefix, !.wf_name = wf_name]
\* '{line_prefix}playWaveformIndexed({wf_name}, {pos}, {wf_len});' followed by
\* ' {pos} = {pos} + {wf_len};' (advance) or ' // advance disabled do to parent repetition'
PlayIndexedLine(prefix, wf_name, wf_len, advance) ==
    [NoLine EXCEPT !.op = "playWaveformIndexed", !.prefix = prefix, !.wf_name = wf_name,
                   !.wf_len = wf_len, !.advance = advance]

\* the state threaded through an emission: what was observed so far, the next
\* name of the name generator, the manager
Emission(out, names, manager) == [out |-> out, names |-> names, manager |-> manager]

Yield(st, l) == [st EXCEPT !.out = Append(@, Line(l))]

request_concatenated(st, waveform) ==
    [st EXCEPT !.out = Append(@, Call("request_concatenated", waveform)),
               !.manager.concatenated = Register(@, waveform)]

request_shared(st, waveform) ==
    [st EXCEPT !.out = Append(@, Call("request_shared", waveform)),
               !.manager.shared = Register(@, waveform)]

\* ------------------------------------------------------------ _visit_nodes()

RECURSIVE visit_nodes(_, _)
RECURSIVE VisitAll(_, _)

\* for node in nodes: node._visit_nodes(waveform_manager)
VisitAll(nodes, st) ==
    IF nodes = <<>> THEN st ELSE VisitAll(Tail(nodes), visit_nodes(Head(nodes), st))

WaveformPlayback_visit_nodes(self, st) ==
    IF ~self.shared THEN request_concatenated(st, self.waveform) ELSE st

visit_nodes(self, st) ==
    CASE self.type = "WaveformPlayback" -> WaveformPlayback_visit_nodes(self, st)
      [] self.type = "Scope" -> VisitAll(self.nodes, st)
      [] self.type = "Repeat" -> visit_nodes(self.scope, st)
      [] self.type = "SteppingRepeat" -> VisitAll(self.node_cluster, st)

\* ---------------------------------------------------------- to_source_code()

\* line_prefix is the number of INDENTATION units; pos_var_name is the one
\* position variable of the program
RECURSIVE to_source_code(_, _, _, _)
RECURSIVE EmitAll(_, _, _, _)

\* a variant that names an indexed waveform by the size of the manager's table
\* after the request instead of by the identifier the manager returns
WaveformPlayback_to_source_code_by_count(self, st, line_prefix, advance_pos_var) ==
    IF self.shared
    THEN LET st1 == request_shared(st, self.waveform)
         IN Yield(st1, PlayLine(line_prefix, Identifier(st1.manager.shared, self.waveform)))
    ELSE LET st1 == request_concatenated(st, self.waveform)
             wf_name == Len(st1.manager.concatenated)
         IN Yield(st1, PlayIndexedLine(line_prefix, wf_name, WfLen(self.waveform),
                                       advance_pos_var))

WaveformPlayback_to_source_code(self, st, line_prefix, advance_pos_var) ==
    IF self.shared
    THEN LET st1 == request_shared(st, self.waveform)
         IN Yield(st1, PlayLine(line_prefix, Identifier(st1.manager.shared, self.waveform)))
    ELSE LET st1 == request_concatenated(st, self.waveform)
             wf_name == Identifier(st1.manager.concatenated, self.waveform)
         IN Yield(st1, PlayIndexedLine(line_prefix, wf_name, WfLen(self.waveform),
                                       advance_pos_var))

\* for node in self.nodes: yield from node.to_source_code(...)
EmitAll(nodes, st, line_prefix, advance_pos_var) ==
    IF nodes = <<>> THEN st
    ELSE EmitAll(Tail(nodes), to_source_code(Head(nodes), st, line_prefix, advance_pos_var),
                 line_prefix, advance_pos_var)

Scope_to_source_code(self, st, line_prefix, advance_pos_var) ==
    EmitAll(self.nodes, st, line_prefix, advance_pos_var)

Repeat_to_source_code(self, st, line_prefix, advance_pos_var) ==
    LET body_prefix == line_prefix + 1
        store_initial_pos == advance_pos_var = FALSE \/ stores_initial_pos(self)
        node_name == st.names
        st1 == IF store_initial_pos
               THEN Yield([st EXCEPT !.names = @ + 1], StoreLine(line_prefix, node_name))
               ELSE st
        st2 == Yield(st1, RepeatLine(line_prefix, self.repetition_count))
        st3 == IF store_initial_pos THEN Yield(st2, RestoreLine(body_prefix, node_name)) ELSE st2
        st4 == to_source_code(self.scope, st3, body_prefix, store_initial_pos)
    IN Yield(st4, CloseLine(line_prefix))

\* a variant that registers the leaves of every member, the first one included
SteppingRepeat_to_source_code_visit_all(self, st, line_prefix, advance_pos_var) ==
    LET body_prefix == line_prefix + 1
        st1 == Yield(st, SteppingLine(line_prefix, Len(self.node_cluster)))
        st2 == to_source_code(self.node_cluster[1], st1, body_prefix, advance_pos_var)
        st3 == VisitAll(self.node_cluster, st2)
    IN Yield(st3, CloseLine(line_prefix))

SteppingRepeat_to_source_code(self, st, line_prefix, advance_pos_var) ==
    LET body_prefix == line_prefix + 1
        st1 == Yield(st, SteppingLine(line_prefix, Len(self.node_cluster)))
        st2 == to_source_code(self.node_cluster[1], st1, body_prefix, advance_pos_var)
        st3 == VisitAll(Tail(self.node_cluster), st2)
    IN Yield(st3, CloseLine(line_prefix))

to_source_code(self, st, line_prefix, advance_pos_var) ==
    CASE self.type = "WaveformPlayback" ->
           WaveformPlayback_to_source_code(self, st, line_prefix, advance_pos_var)
      [] self.type = "Scope" -> Scope_to_source_code(self, st, line_prefix, advance_pos_var)
      [] self.type = "Repeat" -> Repeat_to_source_code(self, st, line_prefix, advance_pos_var)
      [] self.type = "SteppingRepeat" ->
           SteppingRepeat_to_source_code(self, st, line_prefix, advance_pos_var)

\* the lines among what was observed
RECURSIVE LinesOf(_)
LinesOf(out) ==
    IF out = <<>> THEN <<>>
    ELSE IF Head(out).what = "line" THEN <<Head(out).line>> \o LinesOf(Tail(out))
    ELSE LinesOf(Tail(out))

\* the waveforms of the request_concatenated calls among what was observed
RECURSIVE ConcatenatedOf(_)
ConcatenatedOf(out) ==
    IF out = <<>> THEN <<>>
    ELSE IF Head(out).what = "request_concatenated"
         THEN <<Head(out).waveform>> \o ConcatenatedOf(Tail(out))
    ELSE ConcatenatedOf(Tail(out))

\* --------------------------------------------------------- walks of a tree

\* the node and every node below it
RECURSIVE Nodes(_)
Nodes(n) == {n} \cup UNION {Nodes(Children(n)[i]) : i \in 1..Len(Children(n))}

\* the waveforms of the non-shared leaves, in document order
RECURSIVE IndexedOf(_)
IndexedOf(wfs) ==
    IF wfs = <<>> THEN <<>>
    ELSE IF Head(wfs).shared THEN IndexedOf(Tail(wfs))
    ELSE <<Head(wfs).waveform>> \o IndexedOf(Tail(wfs))

IndexedWaveforms(n) == IndexedOf(iter_waveform_playbacks(n))

IsPrefix(s, t) == Len(s) <= Len(t) /\ \A i \in 1..Len(s) : s[i] = t[i]

\* ------------------------------------------------------- explored loop trees

RepCounts == 0..MaxRep

LeafLoops == {Loop(w, r, <<>>) : w \in WaveformName, r \in RepCounts}

\* a loop over one or two leaves, each with its own repetition count
FlatLoops == {Loop(NoWaveform, r, kids) : r \in RepCounts, kids \in SeqsOf(LeafLoops, 1, 2)}

\* a loop over three and more leaves that are played once
PlainLeaves == {Loop(w, 1, <<>>) : w \in WaveformName}
WideLoops == {Loop(NoWaveform, r, kids) : r \in RepCounts, kids \in SeqsOf(PlainLeaves, 3, MaxKids)}

\* a loop over one or two loops over leaves
MidLoops == PlainLeaves \cup
            {Loop(NoWaveform, r, kids) : r \in 1..MaxRep, kids \in SeqsOf(PlainLeaves, 1, 2)}
DeepLoops == {Loop(NoWaveform, r, kids) : r \in RepCounts, kids \in SeqsOf(MidLoops, 1, 2)}

Loops == LeafLoops \cup FlatLoops \cup WideLoops \cup DeepLoops

\* (min_repetitions_for_for_loop, min_repetitions_for_shared_wf); the assertion of
\* line 100 holds for each
Thresholds == {<<2, 2>>, <<2, 3>>, <<3, 3>>, <<4, 4>>}

\* ------------------------------------------ explored nodes and node clusters

Leaves == {WaveformPlayback(w, s) : w \in Waveforms, s \in BOOLEAN}

LeafScopes == {Scope(nodes) : nodes \in SeqsOf(Leaves, 0, 2)}

\* the nodes compared by same_stepping: every variant, alone and nested
SmallNodes == LET body == Leaves \cup {Scope(<<l>>) : l \in Leaves}
              IN body
                 \cup {Repeat(r, x) : r \in 2..(MaxRep + 1), x \in body}
                 \cup {SteppingRepeat(c) : c \in SeqsOf({WaveformPlayback(WA, FALSE),
                                                         WaveformPlayback(WB, FALSE),
                                                         WaveformPlayback(WC, FALSE),
                                                         WaveformPlayback(WA, TRUE)}, 1, 2)}
ComparedNodes == LeafScopes \cup SmallNodes
                 \cup {Scope(<<x, y>>) : x \in {Repeat(2, WaveformPlayback(WA, FALSE)),
                                               SteppingRepeat(<<WaveformPlayback(WA, FALSE),
                                                                WaveformPlayback(WB, FALSE)>>)},
                                         y \in SmallNodes}

\* the members of the clusters scanned by find_sharable_waveforms: all members
\* of a cluster expose the same number of leaves
ScannedLeaves == {WaveformPlayback(WA, FALSE), WaveformPlayback(WB, FALSE),
                  WaveformPlayback(WA, TRUE)}
Members(positions) == {Scope(nodes) : nodes \in [1..positions -> ScannedLeaves]}
Clusters == UNION {SeqsOf(Members(positions), 2, MaxCluster) : positions \in 0..2}

\* --------------------------------------------------------------- the state

VARIABLES
    pc,            \* where the compilation of the program stands
    loop,          \* the Loop tree given to loop_to_seqc
    thresholds,    \* the two thresholds given to loop_to_seqc
    node,          \* the node tree loop_to_seqc returned (Raised when it raised)
    manager,       \* the waveform manager the emissions use
    out,           \* what the first emission made observable, in order
    out2,          \* what the second emission made observable, in order
    run,           \* the execution of the emitted lines by the sequencer
    cmp,           \* a call of same_stepping: its two nodes and its answers
    scan           \* a call of find_sharable_waveforms: its progress

compileVars == <<pc, loop, thresholds, node, manager, out, out2>>
vars == <<pc, loop, thresholds, node, manager, out, out2, run, cmp, scan>>

NoNode == [type |-> "unset"]

NoRun == [node |-> NoNode, prog |-> <<>>, ip |-> 0, pos |-> 0, init_pos |-> <<>>,
          stack |-> <<>>]
NoCmp == [self |-> NoNode, other |-> NoNode, called |-> FALSE,
          ab |-> FALSE, ba |-> FALSE, aa |-> FALSE]
NoScan == [node_cluster |-> <<>>, k |-> 0, candidates |-> <<>>, read |-> {},
           result |-> None, returned |-> FALSE]

\* -------------------------------------------------- lowering and emission

Init ==
    /\ pc = "start"
    /\ loop \in Loops
    /\ thresholds \in Thresholds
    /\ node = NoNode
    /\ manager = NewManager
    /\ out = <<>>
    /\ out2 = <<>>
    /\ run = NoRun
    /\ cmp = NoCmp
    /\ scan = NoScan

\* node = loop_to_seqc(loop, ...)
Lower ==
    /\ pc = "start"
    /\ node' = loop_to_seqc(loop, thresholds[1], thresholds[2])
    /\ pc' = IF node' = Raised THEN "raised" ELSE "lowered"
    /\ UNCHANGED <<loop, thresholds, manager, out, out2, run, cmp, scan>>

\* list(node.to_source_code(manager, names, '', pos)): the generator is consumed
\* to its end, with a new manager and the name generator at its start
Emit ==
    /\ pc = "lowered"
    /\ LET st == to_source_code(node, Emission(<<>>, 0, manager), 0, TRUE)
       IN /\ out' = st.out
          /\ manager' = st.manager
    /\ pc' = "emitted"
    /\ UNCHANGED <<loop, thresholds, node, out2, run, cmp, scan>>

\* a second emission of the same tree, the name generator at its start again,
\* with the manager of the first emission or a new one
EmitAgain ==
    /\ pc = "emitted"
    /\ \E m \in {manager, NewManager} :
         LET st == to_source_code(node, Emission(<<>>, 0, m), 0, TRUE)
         IN /\ out2' = st.out
            /\ manager' = st.manager
    /\ pc' = "emitted twice"
    /\ UNCHANGED <<loop, thresholds, node, out, run, cmp, scan>>

Next == Lower \/ Emit \/ EmitAgain

Spec == Init /\ [][Next]_vars

\* ------------------------------------------- execution of the emitted lines

\* The sequencer runs the lines: a repeat block runs its body count times, a
\* store line declares a variable holding the position, a restore line assigns
\* it back, an indexed play reads the position and, with the advance
\* assignment, adds the length to it.  Each open block keeps the positions its
\* indexed plays read in its first iteration and in the current one.

Frame(kind, start, left) ==
    [kind |-> kind, start |-> start, left |-> left, iter |-> 1, first |-> <<>>, cur |-> <<>>]

\* the lines of one node of the lowered tree, emitted on its own at top level
EmitNode ==
    /\ pc = "lowered"
    /\ \E n \in Nodes(node) :
         LET st == to_source_code(n, Emission(<<>>, 0, manager), 0, TRUE)
         IN /\ out' = st.out
            /\ manager' = st.manager
            /\ run' = [NoRun EXCEPT !.node = n, !.prog = LinesOf(st.out), !.ip = 1]
    /\ pc' = "running"
    /\ UNCHANGED <<loop, thresholds, node, out2, cmp, scan>>

Running == pc = "running" /\ run.ip <= Len(run.prog)
Current == run.prog[run.ip]

\* var init_pos_<name> = pos;
ExecStore ==
    /\ Running /\ Current.op = "store"
    /\ run' = [run EXCEPT !.ip = @ + 1,
                          !.init_pos = (Current.name :> run.pos) @@ run.init_pos]
    /\ UNCHANGED compileVars /\ UNCHANGED <<cmp, scan>>

\* repeat(<count>) {
ExecRepeat ==
    /\ Running /\ Current.op \in {"repeat", "stepping"}
    /\ run' = [run EXCEPT !.ip = @ + 1,
                          !.stack = Append(@, Frame(Current.op, run.ip + 1, Current.count))]
    /\ UNCHANGED compileVars /\ UNCHANGED <<cmp, scan>>

\* pos = init_pos_<name>;
ExecRestore ==
    /\ Running /\ Current.op = "restore"
    /\ run' = [run EXCEPT !.ip = @ + 1, !.pos = run.init_pos[Current.name]]
    /\ UNCHANGED compileVars /\ UNCHANGED <<cmp, scan>>

\* playWaveform(<wf>);
ExecPlay ==
    /\ Running /\ Current.op = "playWaveform"
    /\ run' = [run EXCEPT !.ip = @ + 1]
    /\ UNCHANGED compileVars /\ UNCHANGED <<cmp, scan>>

\* playWaveformIndexed(<wf>, pos, <len>); with or without pos = pos + <len>;
ExecPlayIndexed ==
    /\ Running /\ Current.op = "playWaveformIndexed"
    /\ run' = [run EXCEPT !.ip = @ + 1,
                          !.pos = IF Current.advance THEN @ + Current.wf_len ELSE @,
                          !.stack = [i \in 1..Len(run.stack) |->
                                        [run.stack[i] EXCEPT !.cur = Append(@, run.pos)]]]
    /\ UNCHANGED compileVars /\ UNCHANGED <<cmp, scan>>

\* }: the next iteration of the innermost block, or its end
ExecClose ==
    /\ Running /\ Current.op = "close"
    /\ LET top == run.stack[Len(run.stack)]
           rest == SubSeq(run.stack, 1, Len(run.stack) - 1)
       IN run' = IF top.left > 1
                 THEN [run EXCEPT !.ip = top.start,
                                  !.stack = Append(rest,
                                     [top EXCEPT !.left = @ - 1, !.iter = @ + 1,
                                                 !.first = IF top.iter = 1 THEN top.cur ELSE @,
                                                 !.cur = <<>>])]
                 ELSE [run EXCEPT !.ip = @ + 1, !.stack = rest]
    /\ UNCHANGED compileVars /\ UNCHANGED <<cmp, scan>>

\* the last line was run
Halt ==
    /\ pc = "running" /\ run.ip > Len(run.prog)
    /\ pc' = "done"
    /\ UNCHANGED <<loop, thresholds, node, manager, out, out2, run, cmp, scan>>

NextRun ==
    \/ Lower \/ EmitNode
    \/ ExecStore \/ ExecRepeat \/ ExecRestore \/ ExecPlay \/ ExecPlayIndexed \/ ExecClose
    \/ Halt

SpecRun == Init /\ [][NextRun]_vars

\* ------------------------------------------------- a call of same_stepping

InitSame ==
    /\ pc = "idle" /\ loop = Loop(NoWaveform, 1, <<>>) /\ thresholds = <<2, 2>>
    /\ node = NoNode /\ manager = NewManager /\ out = <<>> /\ out2 = <<>>
    /\ run = NoRun /\ scan = NoScan
    /\ \E a \in ComparedNodes, b \in ComparedNodes :
         cmp = [NoCmp EXCEPT !.self = a, !.other = b]

\* self.same_stepping(other), other.same_stepping(self), self.same_stepping(self)
CallSameStepping ==
    /\ ~cmp.called
    /\ cmp' = [cmp EXCEPT !.called = TRUE,
                          !.ab = same_stepping(cmp.self, cmp.other),
                          !.ba = same_stepping(cmp.other, cmp.self),
                          !.aa = same_stepping(cmp.self, cmp.self)]
    /\ UNCHANGED compileVars /\ UNCHANGED <<run, scan>>

SpecSame == InitSame /\ [][CallSameStepping]_vars

\* ---------------------------------------- a call of find_sharable_waveforms

InitShare ==
    /\ pc = "idle" /\ loop = Loop(NoWaveform, 1, <<>>) /\ thresholds = <<2, 2>>
    /\ node = NoNode /\ manager = NewManager /\ out = <<>> /\ out2 = <<>>
    /\ run = NoRun /\ cmp = NoCmp
    /\ \E c \in Clusters :
         scan = [NoScan EXCEPT
                   !.node_cluster = c, !.k = 2, !.read = {1},
                   !.candidates = [i \in 1..Len(iter_waveform_playbacks(c[1])) |-> TRUE]]

\* one iteration of the loop over node_cluster[1:]: member k is read
ScanMember ==
    /\ ~scan.returned /\ scan.k <= Len(scan.node_cluster)
    /\ LET wfs == iter_waveform_playbacks(scan.node_cluster[1])
           member == scan.node_cluster[scan.k]
       IN scan' = IF ~CandidatesLeft(scan.candidates, wfs, member)
                  THEN [scan EXCEPT !.read = @ \cup {scan.k},
                                    !.candidates = ScanCandidates(scan.candidates, wfs, member),
                                    !.result = None, !.returned = TRUE]
                  ELSE [scan EXCEPT !.read = @ \cup {scan.k}, !.k = @ + 1,
                                    !.candidates = ScanCandidates(scan.candidates, wfs, member)]
    /\ UNCHANGED compileVars /\ UNCHANGED <<run, cmp>>

\* return candidates
ReturnCandidates ==
    /\ ~scan.returned /\ scan.k > Len(scan.node_cluster)
    /\ scan' = [scan EXCEPT !.result = Some(scan.candidates), !.returned = TRUE]
    /\ UNCHANGED compileVars /\ UNCHANGED <<run, cmp>>

NextShare == ScanMember \/ ReturnCandidates

SpecShare == InitShare /\ [][NextShare]_vars

\* ------------------------------------------------------------ the claims

Lowered == pc \in {"lowered", "emitted", "emitted twice"}

\* the lines a node emits on its own at top level
TopLevelOut(n, advance_pos_var) ==
    to_source_code(n, Emission(<<>>, 0, NewManager), 0, advance_pos_var).out

\* C1: while the lines of the lowered tree run, every indexed play in the body
\* of a fixed-count repeat reads, in each later iteration, the position it read
\* in the first iteration.
C1_RepeatReadsSamePosition ==
    (pc \in {"running", "done"} /\ run.node = node) =>
        \A i \in 1..Len(run.stack) :
            (run.stack[i].kind = "repeat" /\ run.stack[i].iter > 1)
                => IsPrefix(run.stack[i].cur, run.stack[i].first)

\* C2: in the lowered tree every SteppingRepeat has a member, and every member
\* is same-stepping with the first one.
C2_ClusterMembersSameStepping ==
    Lowered =>
        \A n \in Nodes(node) :
            n.type = "SteppingRepeat" =>
                /\ Len(n.node_cluster) >= 1
                /\ \A i \in 1..Len(n.node_cluster) :
                      same_stepping(n.node_cluster[1], n.node_cluster[i])

\* C3: two Scopes are same-stepping exactly when they have the same number of
\* children and the children at the same index are same-stepping.
C3_ScopeSameSteppingIffEqualLength ==
    (cmp.called /\ cmp.self.type = "Scope" /\ cmp.other.type = "Scope") =>
        (cmp.ab <=> /\ Len(cmp.self.nodes) = Len(cmp.other.nodes)
                    /\ \A i \in 1..Len(cmp.self.nodes) :
                          same_stepping(cmp.self.nodes[i], cmp.other.nodes[i]))

\* the body has exactly one non-shared leaf, as long as the body's samples()
SoleIndexedLeaf(body) ==
    LET indexed == IndexedWaveforms(body)
    IN Len(indexed) = 1 /\ WfLen(indexed[1]) = samples(body)

\* C4: the complete emission of a Repeat whose body has a sole indexed leaf has
\* no line that stores or restores the position, and the leaf's play line has
\* the advance disabled.
C4_SoleLeafRepeatKeepsNoPosition ==
    pc = "lowered" =>
        \A r \in Nodes(node) :
            (r.type = "Repeat" /\ SoleIndexedLeaf(r.scope)) =>
                LET lines == LinesOf(TopLevelOut(r, TRUE))
                IN \A i \in 1..Len(lines) :
                      /\ lines[i].op \notin {"store", "restore"}
                      /\ lines[i].op = "playWaveformIndexed" => ~lines[i].advance

C6_ConcatenatedRequestsInDocumentOrder ==
    pc = "emitted" =>
        /\ ConcatenatedOf(out) = IndexedWaveforms(node)
        /\ \A n \in Nodes(node) : \A adv \in BOOLEAN :
              /\ ConcatenatedOf(TopLevelOut(n, adv)) = IndexedWaveforms(n)
              /\ n.type = "SteppingRepeat" =>
                    LET first == to_source_code(n.node_cluster[1],
                                                Emission(<<>>, 0, NewManager), 1, adv).out
                        others == IndexedOf(Flatten(
                                     [i \in 1..(Len(n.node_cluster) - 1) |->
                                        iter_waveform_playbacks(n.node_cluster[i + 1])]))
                    IN TopLevelOut(n, adv) =
                          <<Line(SteppingLine(0, Len(n.node_cluster)))>>
                          \o first
                          \o [i \in 1..Len(others) |-> Call("request_concatenated", others[i])]
                          \o <<Line(CloseLine(0))>>

\* the emitted tree has a SteppingRepeat whose later members have a shared and
\* a non-shared leaf
C6_Witness ==
    /\ pc = "emitted"
    /\ \E n \in Nodes(node) :
          /\ n.type = "SteppingRepeat" /\ Len(n.node_cluster) >= 2
          /\ \E l \in Nodes(n.node_cluster[2]) : l.type = "WaveformPlayback" /\ l.shared
          /\ \E l \in Nodes(n.node_cluster[2]) : l.type = "WaveformPlayback" /\ ~l.shared

\* every member's leaf at position p equals the first member's leaf at p
AllEqualAt(node_cluster, p) ==
    \A m \in 2..Len(node_cluster) :
        iter_waveform_playbacks(node_cluster[m])[p] = iter_waveform_playbacks(node_cluster[1])[p]

\* the members after whose scan no candidate is left
DeadAt(node_cluster) ==
    {m \in 2..Len(node_cluster) :
        \A p \in 1..Len(iter_waveform_playbacks(node_cluster[1])) :
            ~AllEqualAt(SubSeq(node_cluster, 1, m), p)}

SetMin(S) == CHOOSE x \in S : \A y \in S : x <= y

\* C7: find_sharable_waveforms returns None exactly when no position has every
\* member's leaf equal to the first member's; otherwise position p of its
\* result is true exactly for those positions.  No member after the one that
\* leaves no candidate is read, and the result is None whatever they hold.
C7_SharableWaveformsFound ==
    scan.returned =>
        LET c == scan.node_cluster
            positions == 1..Len(iter_waveform_playbacks(c[1]))
            dead == DeadAt(c)
        IN /\ scan.result = None <=> \A p \in positions : ~AllEqualAt(c, p)
           /\ scan.result # None =>
                 /\ DOMAIN scan.result.flags = positions
                 /\ \A p \in positions : scan.result.flags[p] <=> AllEqualAt(c, p)
           /\ scan.result = find_sharable_waveforms(c)
           /\ dead # {} =>
                 /\ scan.read = 1..SetMin(dead)
                 /\ \A m \in (SetMin(dead) + 1)..Len(c) :
                       \A x \in Members(Len(iter_waveform_playbacks(c[1]))) :
                           find_sharable_waveforms([c EXCEPT ![m] = x]) = None

\* the scan of a cluster of three stopped after its second member, whose
\* successor agrees with the first member at a position
C7_Witness ==
    /\ scan.returned /\ scan.result = None
    /\ Len(scan.node_cluster) = 3 /\ scan.read = {1, 2}
    /\ \E p \in 1..Len(iter_waveform_playbacks(scan.node_cluster[1])) :
          iter_waveform_playbacks(scan.node_cluster[3])[p]
              = iter_waveform_playbacks(scan.node_cluster[1])[p]

Symmetric == {"WaveformPlayback", "Scope", "Repeat"}

\* C8: a node is same-stepping with itself; for a leaf, a Scope or a Repeat the
\* answer is the same in both directions; nodes of different variants are not
\* same-stepping (and the comparison reads no field the other node lacks).
C8_SameSteppingReflexiveSymmetric ==
    cmp.called =>
        /\ cmp.aa
        /\ cmp.self.type \in Symmetric => cmp.ab = cmp.ba
        /\ cmp.self.type # cmp.other.type => ~cmp.ab /\ ~cmp.ba

\* two different Repeats around a shared and a non-shared leaf were compared
C8_Witness ==
    /\ cmp.called
    /\ cmp.self.type = "Repeat" /\ cmp.other.type = "Repeat"
    /\ cmp.self.scope.type = "WaveformPlayback" /\ cmp.other.scope.type = "WaveformPlayback"
    /\ cmp.self.scope.shared /\ ~cmp.other.scope.shared
    /\ cmp.self.scope.waveform = cmp.other.scope.waveform

\* the loops below the root all have a repetition count of at least 1
RECURSIVE Repeated(_)
Repeated(l) ==
    \A i \in 1..Len(l.children) :
        l.children[i].repetition_count >= 1 /\ Repeated(l.children[i])

\* C9: every Repeat of the lowered tree has a count above 1; a loop with a count
\* of 1 or 0 is lowered as the same loop with count 1 is, without an error, and
\* a loop with another count to one Repeat with that count around it.
C9_RepeatCountAboveOne ==
    (pc # "start" /\ pc # "idle") =>
        /\ node # Raised =>
              \A n \in Nodes(node) : n.type = "Repeat" => n.repetition_count > 1
        /\ (\A i \in 1..Len(loop.children) : Repeated(loop.children[i])
                                              /\ loop.children[i].repetition_count >= 1) =>
              LET once == loop_to_seqc([loop EXCEPT !.repetition_count = 1],
                                       thresholds[1], thresholds[2])
              IN IF loop.repetition_count \in {0, 1}
                 THEN node = once /\ node # Raised
                 ELSE node = Repeat(loop.repetition_count, once)

\* C10: running the lines a node of the lowered tree emits with the advance
\* enabled moves the position by the node's samples().
C10_PositionAdvancesBySamples ==
    pc = "done" => run.pos = samples(run.node)

====
